---- MODULE Spec2Model ----
(***************************************************************************)
(* Aqua Blitz: the relay server (server.js, src/unnamed/part_004) and the  *)
(* client (src/public/js/game.js): network handlers, lap tracking, boat    *)
(* physics, frame loop and timers.                                         *)
(*                                                                         *)
(* Spec        : relay server + clients, any payload on the wire.          *)
(* SpecHonest  : relay server + clients that only send what game.js sends. *)
(* SpecSession : the same with clients of revision 1 or of revision 3.     *)
(* SpecCrowd   : the relay server from a full room of MaxPlayers on.       *)
(* SpecLap     : the checkpoint / lap part of update() on the two tracks.  *)
(* SpecList    : the checkpoint test on short lists of checkpoints.        *)
(* SpecPhys    : a few frames of physics with input events in between.     *)
(* SpecRun     : runs of frames with a constant input.                     *)
(* SpecNitro   : SpecPhys from a boat that holds a nitro power-up.         *)
(* SpecHazard  : frames on a course through a hazard of revision 3.        *)
(* SpecEnd     : frames and teleport timeouts at the end of revision 1's   *)
(*               endless track.                                            *)
(***************************************************************************)
EXTENDS Integers, Sequences, FiniteSets, TLC

\* ---------------------------------------------------------------- bounds
NumConns == 2
MaxEmits == 3
MaxVal == 2
MaxLaps == 2
MaxFrames == 3
MaxInputs == 3
MaxSimTime == 4000
MaxListLen == 2
MaxTeleports == 2

\* ------------------------------------------------------- value encoding
\* A payload field that is not present (reads back as undefined).
Absent == -1
\* The server's default {x: 0, y: 0, z: 0}: an object, not an array.
Origin == 0
\* What fromArray leaves in a vector when given a non-array object.
Undef == -2

Conns == 1..NumConns
Vals == 1..MaxVal

VARIABLES
    status,        \* server side socket of each connection: "idle", "open", "closed"
    serverUp,      \* FALSE once a handler of the server threw (uncaught)
    players,       \* gameState.players, a Map in insertion order
    up,            \* client -> server messages in flight, per connection
    down,          \* server -> client messages in flight, per connection
    started,       \* client: start button clicked, init() has built the scene
    otherPlayers,  \* client: Map id -> boat (its position and rotation)
    sceneBoats,    \* client: number of remote boat meshes added to the scene, per id
    published,     \* client: position/rotation of its last playerJoin/playerUpdate
    emitted,       \* number of messages clients have emitted so far
    joinedConns,   \* connections whose playerJoin was handled and that are still connected
    last,          \* the handler that ran last, with what it saw
    rev,           \* client revision whose track is loaded (1 or 3)
    gameStarted,   \* isGameStarted
    checkpoints,   \* checkpoints, a list of positions
    currentCheckpoint,
    lapCount,
    boatPos,       \* playerBoat.position (x, z), in whole units
    hazards,       \* hazards, a list of positions (x, z)
    stayed,        \* checkpoints the boat has been inside on every frame since the last lap increment
    speed,         \* speed, in 1/SpeedScale units per second
    keys,          \* keys.forward, keys.backward
    shiftHeld,     \* the Shift keys that are physically down
    isDrifting,    \* isDrifting
    hasPowerUp,    \* hasPowerUp
    dt,            \* clock.getDelta() of update(), in ms; fixed along a run
    bob,           \* Math.sin(Date.now() * f) of the bobbing term, in thousandths
    elapsed,       \* simulated time, the sum of the frame times, in ms
    frames,        \* number of frames run
    inputs,        \* number of input events handled
    posZ,          \* playerBoat.position.z, in 1/1000 units
    posY,          \* playerBoat.position.y, in 1/HeightScale units
    sentUpdate,    \* payload of the last playerUpdate emitted by update()
    sentCount,     \* number of playerUpdate messages emitted by update()
    scheduled,     \* a requestAnimationFrame(animate) callback is pending
    faulted,       \* some frame's body has thrown
    gap,           \* ms from update()'s clock.getDelta() to the next animate()'s; fixed along a run
    wall,          \* ms of clock time from the first frame's update() to the latest one's
    timers,        \* pending teleport timeouts of update(), by the clock time they are due at
    teleports,     \* number of times a timeout has set position.z back to the start
    arrivals       \* number of times the boat has come to the end of the endless track

netVars == <<status, serverUp, players, up, down, started, otherPlayers,
             sceneBoats, published, emitted, joinedConns, last>>
lapVars == <<rev, gameStarted, checkpoints, currentCheckpoint, lapCount, boatPos, stayed,
             hazards>>
physVars == <<speed, keys, shiftHeld, isDrifting, hasPowerUp, dt, bob, elapsed, frames,
              inputs, posZ, posY, sentUpdate, sentCount, scheduled, faulted, gap, wall,
              timers, teleports, arrivals>>
localVars == <<lapVars, physVars>>
vars == <<netVars, lapVars, physVars>>

\* ---------------------------------------------------------------- messages
NoPayload == [nul |-> TRUE, id |-> Absent, pos |-> Absent, rot |-> Absent]

Payload(i, p, r) == [nul |-> FALSE, id |-> i, pos |-> p, rot |-> r]

\* Every payload a connection may put on the wire.
AnyPayload ==
    {NoPayload} \cup
    {Payload(i, v, v) : i \in Conns \cup {Absent}, v \in Vals \cup {Absent}} \cup
    {Payload(Absent, v, Absent) : v \in Vals}

UpMsg(t, d) == [type |-> t, data |-> d]

RosterMsg(ps) == [type |-> "playersList", id |-> Absent, pos |-> Absent,
                  rot |-> Absent, players |-> ps]

EffectMsg(c, d) == [type |-> "powerUpEffect", id |-> c, pos |-> d.pos,
                    rot |-> Absent, players |-> <<>>]

\* ------------------------------------------------------------ the Map
Keys(ps) == {ps[i].key : i \in DOMAIN ps}

Has(ps, c) == c \in Keys(ps)

IndexOf(ps, c) == CHOOSE i \in DOMAIN ps : ps[i].key = c

Get(ps, c) == ps[IndexOf(ps, c)]

\* (mutant) every set adds an entry, also for a key the map has.
MapSetAppends(ps, c, rec) == Append(ps, rec)

\* Map.set: a present key keeps its place, a new key goes last.
MapSet(ps, c, rec) ==
    IF Has(ps, c)
    THEN [ps EXCEPT ![IndexOf(ps, c)] = rec]
    ELSE Append(ps, rec)

\* (mutant) the record survives the disconnect.
MapDeleteKeeps(ps, c) == ps

MapDelete(ps, c) == SelectSeq(ps, LAMBDA r : r.key # c)

\* { ...base, ...data }: the fields data has replace those of base.
Spread(base, data) ==
    [key |-> base.key,
     id  |-> IF data.id  # Absent THEN data.id  ELSE base.id,
     pos |-> IF data.pos # Absent THEN data.pos ELSE base.pos,
     rot |-> IF data.rot # Absent THEN data.rot ELSE base.rot]

JoinRecord(c, data) ==
    Spread([key |-> c, id |-> c, pos |-> Origin, rot |-> Origin], data)

\* { id: socket.id, ...data }
MoveMsg(c, data) ==
    [type |-> "playerMove",
     id  |-> IF data.id # Absent THEN data.id ELSE c,
     pos |-> data.pos, rot |-> data.rot, players |-> <<>>]

Open == {c \in DOMAIN status : status[c] = "open"}

\* io.emit: every connected socket.
Everyone(c) == Open

\* (mutant) the relay also echoes to the sender.
OthersAndSender(c) == Open

\* socket.broadcast.emit: every connected socket but the sender's.
Others(c) == Open \ {c}

\* io.emit / socket.broadcast.emit: one copy to each socket of `to`.
Emit(to, m) == [c \in DOMAIN down |-> IF c \in to THEN Append(down[c], m) ELSE down[c]]


\* ------------------------------------------------------------ bookkeeping
\* op: the handler, c: its socket, id: the id it dealt with, ids: the ids of
\* the roster it saw, hit: it found the record / boat it looked up.
Ran(o, c, i, is, h, t) ==
    [op |-> o, c |-> c, id |-> i, ids |-> is, hit |-> h, threw |-> t]

NoBoats == [i \in {} |-> [pos |-> Undef, rot |-> Undef]]

NetInit ==
    /\ status = [c \in Conns |-> "idle"]
    /\ serverUp = TRUE
    /\ players = <<>>
    /\ up = [c \in Conns |-> <<>>]
    /\ down = [c \in Conns |-> <<>>]
    /\ started = [c \in Conns |-> FALSE]
    /\ otherPlayers = [c \in Conns |-> NoBoats]
    /\ sceneBoats = [c \in Conns |-> [i \in Conns |-> 0]]
    /\ published = [c \in Conns |-> [pos |-> Absent, rot |-> Absent]]
    /\ emitted = 0
    /\ joinedConns = {}
    /\ last = Ran("none", 0, Absent, {}, FALSE, FALSE)

LapIdle ==
    /\ rev = 1
    /\ gameStarted = FALSE
    /\ checkpoints = <<>>
    /\ currentCheckpoint = 0
    /\ lapCount = 0
    /\ boatPos = <<0, 0>>
    /\ stayed = {}
    /\ hazards = <<>>

\* ---------------------------------------------------------------- clients
\* The page loads and its socket connects; socket ids are fresh, so the
\* connections are taken in order.
Connect(c) ==
    /\ UNCHANGED localVars
    /\ serverUp
    /\ status[c] = "idle"
    /\ \A b \in DOMAIN status : b < c => status[b] # "idle"
    /\ status' = [status EXCEPT ![c] = "open"]
    /\ last' = Ran("connection", c, Absent, {}, FALSE, FALSE)
    /\ UNCHANGED <<serverUp, players, up, down, started, otherPlayers, sceneBoats,
                   published, emitted, joinedConns>>

\* playerBoat.position.toArray() / rotation.toArray() right after init().
StartPose == 1

\* The start button: init() builds the scene; revision 1 then emits
\* playerJoin, revision 3's listener emits nothing.
StartClick(c) ==
    /\ UNCHANGED localVars
    /\ status[c] = "open"
    /\ ~started[c]
    /\ emitted < MaxEmits
    /\ started' = [started EXCEPT ![c] = TRUE]
    /\ IF rev = 1
       THEN /\ up' = [up EXCEPT ![c] =
                        Append(@, UpMsg("playerJoin", Payload(Absent, StartPose, StartPose)))]
            /\ published' = [published EXCEPT ![c] = [pos |-> StartPose, rot |-> StartPose]]
            /\ emitted' = emitted + 1
       ELSE UNCHANGED <<up, published, emitted>>
    /\ last' = Ran("startClick", c, Absent, {}, FALSE, FALSE)
    /\ UNCHANGED <<status, serverUp, players, down, otherPlayers, sceneBoats, joinedConns>>

\* update(): the boat has moved to pose v and the new state is published.
Publish(c, v) ==
    /\ UNCHANGED localVars
    /\ status[c] = "open"
    /\ started[c]
    /\ emitted < MaxEmits
    /\ up' = [up EXCEPT ![c] = Append(@, UpMsg("playerUpdate", Payload(Absent, v, v)))]
    /\ published' = [published EXCEPT ![c] = [pos |-> v, rot |-> v]]
    /\ emitted' = emitted + 1
    /\ last' = Ran("update", c, Absent, {}, FALSE, FALSE)
    /\ UNCHANGED <<status, serverUp, players, down, started, otherPlayers, sceneBoats,
                   joinedConns>>

\* ----------------------------------------------------------------- server
\* Event t of socket c with payload d reaches the server: the next one a game
\* client emitted, or (wire) one put on the wire by something other than game.js.
Arrival(c, t, d, wire) ==
    /\ serverUp
    /\ status[c] = "open"
    /\ IF wire
       THEN /\ emitted < MaxEmits
            /\ emitted' = emitted + 1
            /\ UNCHANGED up
       ELSE /\ up[c] # <<>>
            /\ Head(up[c]) = UpMsg(t, d)
            /\ up' = [up EXCEPT ![c] = Tail(@)]
            /\ UNCHANGED emitted

Ids(ps) == {ps[i].id : i \in DOMAIN ps}

ServerPlayerJoin(c, d, wire) ==
    /\ Arrival(c, "playerJoin", d, wire)
    /\ UNCHANGED localVars
    /\ LET ps == MapSet(players, c, JoinRecord(c, d))
       IN /\ players' = ps
          /\ down' = Emit(Everyone(c), RosterMsg(ps))
          /\ last' = Ran("playerJoin", c, JoinRecord(c, d).id, Ids(ps), Has(players, c), FALSE)
    /\ joinedConns' = joinedConns \cup {c}
    /\ UNCHANGED <<status, serverUp, started, otherPlayers, sceneBoats, published>>

\* (mutant) the update is relayed whether or not the sender has a record.
ServerPlayerUpdateRelaysAll(c, d, wire) ==
    /\ Arrival(c, "playerUpdate", d, wire)
    /\ UNCHANGED localVars
    /\ players' = IF Has(players, c) THEN MapSet(players, c, Spread(Get(players, c), d))
                  ELSE players
    /\ down' = Emit(Others(c), MoveMsg(c, d))
    /\ last' = Ran("playerUpdate", c, MoveMsg(c, d).id, {}, Has(players, c), FALSE)
    /\ UNCHANGED <<status, serverUp, started, otherPlayers, sceneBoats, published,
                   joinedConns>>

\* if (gameState.players.has(socket.id)) { set; socket.broadcast.emit }
ServerPlayerUpdate(c, d, wire) ==
    /\ Arrival(c, "playerUpdate", d, wire)
    /\ UNCHANGED localVars
    /\ IF Has(players, c)
       THEN /\ players' = MapSet(players, c, Spread(Get(players, c), d))
            /\ down' = Emit(Others(c), MoveMsg(c, d))
       ELSE UNCHANGED <<players, down>>
    /\ last' = Ran("playerUpdate", c, MoveMsg(c, d).id, {}, Has(players, c), FALSE)
    /\ UNCHANGED <<status, serverUp, started, otherPlayers, sceneBoats, published,
                   joinedConns>>

\* data.type on a missing payload is a TypeError nothing catches.
ServerPowerUpUsed(c, d, wire) ==
    /\ Arrival(c, "powerUpUsed", d, wire)
    /\ UNCHANGED localVars
    /\ IF d.nul
       THEN serverUp' = FALSE /\ UNCHANGED down
       ELSE down' = Emit(Everyone(c), EffectMsg(c, d)) /\ UNCHANGED serverUp
    /\ last' = Ran("powerUpUsed", c, c, {}, ~d.nul, d.nul)
    /\ UNCHANGED <<status, players, started, otherPlayers, sceneBoats, published,
                   joinedConns>>

ServerDisconnect(c) ==
    /\ UNCHANGED localVars
    /\ serverUp
    /\ status[c] = "open"
    /\ status' = [status EXCEPT ![c] = "closed"]
    /\ LET ps == MapDelete(players, c)
       IN /\ players' = ps
          /\ down' = [Emit(Open \ {c}, RosterMsg(ps)) EXCEPT ![c] = <<>>]
          /\ last' = Ran("disconnect", c, c, Ids(ps), Has(players, c), FALSE)
    /\ up' = [up EXCEPT ![c] = <<>>]
    /\ joinedConns' = joinedConns \ {c}
    /\ UNCHANGED <<serverUp, started, otherPlayers, sceneBoats, published, emitted>>

\* ---------------------------------------------------- client handlers
\* Vector3.fromArray / Euler.fromArray: reads array[0..2]; undefined throws,
\* a non-array object yields undefined coordinates.
FromArrayThrows(v) == v = Absent

FromArray(v) == IF v = Origin THEN Undef ELSE v

\* new THREE.Mesh(...): a boat at the scene's origin.
NewBoat == [pos |-> Origin, rot |-> Origin]

\* (mutant) only the position is applied, the rotation is left as it was.
MoveBoatPositionOnly(tbl, i, p, r) ==
    IF FromArrayThrows(p) THEN [tbl |-> tbl, threw |-> TRUE]
    ELSE [tbl |-> [tbl EXCEPT ![i].pos = FromArray(p)], threw |-> FromArrayThrows(r)]

\* boat.position.fromArray(p); boat.rotation.fromArray(r);
\* the first one that throws ends the handler.
MoveBoat(tbl, i, p, r) ==
    IF FromArrayThrows(p) THEN [tbl |-> tbl, threw |-> TRUE]
    ELSE IF FromArrayThrows(r)
         THEN [tbl |-> [tbl EXCEPT ![i].pos = FromArray(p)], threw |-> TRUE]
         ELSE [tbl |-> [tbl EXCEPT ![i] = [pos |-> FromArray(p), rot |-> FromArray(r)]],
               threw |-> FALSE]

\* (mutant) no otherPlayers.has test: every roster entry gets a new boat.
RosterEntryAlwaysNew(st, player, self, ready) ==
    IF player.id = self THEN st
    ELSE IF ~ready THEN [st EXCEPT !.threw = TRUE]
         ELSE LET tbl1 == (player.id :> NewBoat) @@ st.tbl
                  mv == MoveBoat(tbl1, player.id, player.pos, player.rot)
              IN [tbl |-> mv.tbl, sc |-> [st.sc EXCEPT ![player.id] = @ + 1],
                  threw |-> mv.threw]

\* The body of players.forEach for one roster entry; st = [tbl, sc, threw].
RosterEntry(st, player, self, ready) ==
    IF player.id = self THEN st
    ELSE IF player.id \notin DOMAIN st.tbl /\ ~ready
         \* scene is still undefined: scene.add(boat) throws before the set
         THEN [st EXCEPT !.threw = TRUE]
         ELSE LET fresh == player.id \notin DOMAIN st.tbl
                  tbl1 == IF fresh THEN (player.id :> NewBoat) @@ st.tbl ELSE st.tbl
                  sc1 == IF fresh THEN [st.sc EXCEPT ![player.id] = @ + 1] ELSE st.sc
                  mv == MoveBoat(tbl1, player.id, player.pos, player.rot)
              IN [tbl |-> mv.tbl, sc |-> sc1, threw |-> mv.threw]

RECURSIVE ApplyRoster(_, _, _, _)
ApplyRoster(st, roster, self, ready) ==
    IF roster = <<>> \/ st.threw THEN st
    ELSE ApplyRoster(RosterEntry(st, Head(roster), self, ready), Tail(roster), self, ready)

Arrived(c, t) ==
    /\ status[c] = "open"
    /\ down[c] # <<>>
    /\ Head(down[c]).type = t

ClientPlayersList(c) ==
    /\ UNCHANGED localVars
    /\ Arrived(c, "playersList")
    /\ LET m == Head(down[c])
           st == ApplyRoster([tbl |-> otherPlayers[c], sc |-> sceneBoats[c], threw |-> FALSE],
                             m.players, c, started[c])
       IN /\ otherPlayers' = [otherPlayers EXCEPT ![c] = st.tbl]
          /\ sceneBoats' = [sceneBoats EXCEPT ![c] = st.sc]
          /\ last' = Ran("playersList", c, Absent, Ids(m.players),
                     Ids(m.players) \cap DOMAIN otherPlayers[c] # {}, st.threw)
    /\ down' = [down EXCEPT ![c] = Tail(@)]
    /\ UNCHANGED <<status, serverUp, players, up, started, published, emitted, joinedConns>>

\* (mutant) a move for an unknown id makes a boat for it.
OnPlayerMoveCreates(tbl, m) ==
    MoveBoat((m.id :> NewBoat) @@ tbl, m.id, m.pos, m.rot)

\* const boat = otherPlayers.get(data.id); if (boat) { ... }
OnPlayerMove(tbl, m) ==
    IF m.id \in DOMAIN tbl
    THEN MoveBoat(tbl, m.id, m.pos, m.rot)
    ELSE [tbl |-> tbl, threw |-> FALSE]

ClientPlayerMove(c) ==
    /\ UNCHANGED localVars
    /\ Arrived(c, "playerMove")
    /\ LET m == Head(down[c])
           mv == OnPlayerMove(otherPlayers[c], m)
       IN /\ otherPlayers' = [otherPlayers EXCEPT ![c] = mv.tbl]
          /\ last' = Ran("playerMove", c, m.id, {}, m.id \in DOMAIN otherPlayers[c], mv.threw)
    /\ down' = [down EXCEPT ![c] = Tail(@)]
    /\ UNCHANGED <<status, serverUp, players, up, started, sceneBoats, published,
                   emitted, joinedConns>>

\* Only a TODO in the source: the event is consumed.
ClientPowerUpEffect(c) ==
    /\ UNCHANGED localVars
    /\ Arrived(c, "powerUpEffect")
    /\ last' = Ran("powerUpEffect", c, Head(down[c]).id, {}, TRUE, FALSE)
    /\ down' = [down EXCEPT ![c] = Tail(@)]
    /\ UNCHANGED <<status, serverUp, players, up, started, otherPlayers, sceneBoats,
                   published, emitted, joinedConns>>

\* ------------------------------------------------------ laps (update)
\* TRACK_WIDTH / TRACK_CONSTANTS.WIDTH
TrackWidth == 200

\* trackPath of createNeonLagoonTrack, as (x, z).
TrackPath ==
    << <<0, 0>>, <<200, 50>>, <<400, 200>>, <<500, 400>>, <<300, 600>>,
       <<100, 500>>, <<-100, 600>>, <<-300, 400>>, <<-200, 200>>, <<-100, 100>> >>

\* createCheckpoints: one checkpoint pushed per track point, nothing cleared.
CreateCheckpoints(cps, path) == cps \o path

\* addHazards: a hazard near the track points 2, 5 and 7 (counted from 0),
\* nothing cleared; o is the random shift, here the same for the three.
HazardPoints == <<3, 6, 8>>
AddHazards(hz, path, o) ==
    hz \o [i \in 1..Len(HazardPoints) |->
              <<path[HazardPoints[i]][1] + o[1], path[HazardPoints[i]][2] + o[2]>>]

\* (Math.random() - 0.5) * WIDTH * 0.5 lies in [-50, 50).
HazardShifts == {<<0, 0>>, <<-50, 30>>}

\* What init() leaves in hazards; revision 1's track builder fails before it
\* places any.
InitHazards(r, hz, o) == IF r = 1 THEN hz ELSE AddHazards(hz, TrackPath, o)

\* What init() leaves in checkpoints.  Revision 1's createSimpleEndlessTrack
\* reads the undeclared boostPads before its loop and its catch swallows the
\* ReferenceError: no checkpoint is ever created there.
InitTrack(r, cps) == IF r = 1 THEN cps ELSE CreateCheckpoints(cps, TrackPath)

\* new THREE.Vector2(dx, dz).length() < width / 2, on whole coordinates.
InRadius(p, q) ==
    4 * ((p[1] - q[1]) * (p[1] - q[1]) + (p[2] - q[2]) * (p[2] - q[2]))
        < TrackWidth * TrackWidth

\* (mutant) any checkpoint the boat is in counts.
CheckpointHitAny(p, cps, cc) ==
    /\ Len(cps) > 0
    /\ cc < Len(cps)
    /\ \E j \in DOMAIN cps : InRadius(p, cps[j])

\* (mutant) the checkpoint is read without any test on the list.
CheckpointGuardNone(cps, cc) == TRUE

\* if (checkpoints.length > 0 && currentCheckpoint < checkpoints.length)
\* and, inside it, if (nextCheckpoint).
CheckpointGuard(cps, cc) ==
    /\ Len(cps) > 0
    /\ cc < Len(cps)
    /\ (cc + 1) \in DOMAIN cps

\* nextCheckpoint.position is a TypeError when the guarded read finds nothing.
CheckpointThrows(cps, cc) == CheckpointGuard(cps, cc) /\ (cc + 1) \notin DOMAIN cps

\* The checkpoint test of update(): only checkpoints[currentCheckpoint] is looked at.
CheckpointHit(p, cps, cc) ==
    /\ CheckpointGuard(cps, cc)
    /\ ~CheckpointThrows(cps, cc)
    /\ InRadius(p, cps[cc + 1])

\* Places the boat is sampled at after the integration of a frame: on each
\* track point, between neighbouring track points, and off the track.
BoatPlaces ==
    {TrackPath[i] : i \in DOMAIN TrackPath} \cup
    {<<-150, 150>>, <<-50, 50>>, <<100, 25>>, <<1000, 1000>>}

LapInit ==
    /\ rev \in {1, 3}
    /\ gameStarted = FALSE
    /\ checkpoints = IF rev = 1 THEN <<>> ELSE InitTrack(rev, <<>>)
    /\ currentCheckpoint = 0
    /\ lapCount = 0
    /\ boatPos = <<0, 0>>
    /\ stayed = {}
    /\ hazards \in (IF rev = 1 THEN {<<>>}
                    ELSE {InitHazards(rev, <<>>, o) : o \in HazardShifts})

\* The start button: isGameStarted = true; init();
StartGame ==
    /\ UNCHANGED <<netVars, physVars>>
    /\ ~gameStarted
    /\ gameStarted' = TRUE
    /\ checkpoints' = InitTrack(rev, checkpoints)
    /\ \E o \in HazardShifts : hazards' = InitHazards(rev, hazards, o)
    /\ boatPos' = <<0, 0>>
    /\ UNCHANGED <<rev, currentCheckpoint, lapCount, stayed>>

\* (mutant) the index runs off the end of the list.
NextCheckpointNoWrap(cc, n) == cc + 1

\* (currentCheckpoint + 1) % checkpoints.length
NextCheckpoint(cc, n) == (cc + 1) % n

\* The checkpoints the boat at p is in the radius of.
InsideOf(p, cps) == {j \in DOMAIN cps : InRadius(p, cps[j])}

\* The checkpoint test of update() with the boat at p after the integration.
LapPart(p) ==
    /\ boatPos' = p
    /\ IF CheckpointHit(p, checkpoints, currentCheckpoint)
       THEN /\ currentCheckpoint' = NextCheckpoint(currentCheckpoint, Len(checkpoints))
            /\ lapCount' = IF currentCheckpoint' = 0 THEN lapCount + 1 ELSE lapCount
       ELSE UNCHANGED <<currentCheckpoint, lapCount>>
    /\ stayed' = IF lapCount' # lapCount THEN InsideOf(p, checkpoints)
                 ELSE stayed \cap InsideOf(p, checkpoints)

\* One frame of update(): the boat ends the integration at p, then the
\* checkpoint test runs on the new position.
UpdateStep(p) ==
    /\ UNCHANGED <<netVars, physVars>>
    /\ gameStarted
    /\ lapCount < MaxLaps
    /\ LapPart(p)
    /\ UNCHANGED <<rev, gameStarted, checkpoints, hazards>>

\* ------------------------------------------------- boat physics (update)
\* Fixed point: speed in 1/SpeedScale units per second, height in
\* 1/HeightScale units, z in 1/1000 units, time in ms.  A product with a
\* decimal factor is cut toward zero.
SpeedScale == 100
HeightScale == 100000

Mul(v, num, den) == IF v >= 0 THEN (v * num) \div den ELSE -(((-v) * num) \div den)
Min(a, b) == IF a < b THEN a ELSE b
Max(a, b) == IF a > b THEN a ELSE b

\* ACCELERATION, MAX_SPEED, NITRO_MULTIPLIER (in tenths) of a revision.
Acceleration(r) == IF r = 1 THEN 1000 ELSE 2000
MaxSpeed(r) == (IF r = 1 THEN 800 ELSE 1500) * SpeedScale
NitroTenths(r) == IF r = 1 THEN 18 ELSE 20
\* The factors of update(), in hundredths: forward and backward share of
\* ACCELERATION, the coasting factor, DRAG_COEFFICIENT, the reverse limit.
ForwardPct(r) == IF r = 1 THEN 20 ELSE 100
BackwardPct(r) == IF r = 1 THEN 15 ELSE 70
CoastPct(r) == IF r = 1 THEN 99 ELSE 95
DragPct == 98
ReversePct == 40
ReverseLimit(r) == Mul(MaxSpeed(r), ReversePct, 100)

\* ACCELERATION * delta * factor
AccelTerm(r, d, pct) == (((Acceleration(r) * d * SpeedScale) \div 1000) * pct) \div 100

\* if (keys.forward) ... else if (keys.backward) ... else ...
Accelerate(r, s, k, d) ==
    IF k.forward THEN s + AccelTerm(r, d, ForwardPct(r))
    ELSE IF k.backward THEN s - AccelTerm(r, d, BackwardPct(r))
    ELSE Mul(s, CoastPct(r), 100)

\* (mutant) the upper limit is not applied.
ClampLowOnly(v, lo, hi) == IF v < lo THEN lo ELSE v

\* THREE.MathUtils.clamp
Clamp(v, lo, hi) == IF v < lo THEN lo ELSE IF v > hi THEN hi ELSE v

\* (mutant) coasting and drag push the speed past zero.
NextSpeedOvershoots(r, s, k, d) ==
    IF k.forward \/ k.backward
    THEN Clamp(Mul(Accelerate(r, s, k, d), DragPct, 100), -ReverseLimit(r), MaxSpeed(r))
    ELSE -Mul(s, DragPct, 100)

\* The speed after one update(): acceleration or coasting, drag, clamp.
NextSpeed(r, s, k, d) ==
    Clamp(Mul(Accelerate(r, s, k, d), DragPct, 100), -ReverseLimit(r), MaxSpeed(r))

\* velocity = (0, 0, speed * delta) at heading 0; revision 1 moves the boat
\* 0.6 of the way (position.lerp), revision 3 all the way (position.add).
NextZ(r, z, s, d) ==
    z + (IF r = 1 THEN Mul(Mul(s * d, 1, SpeedScale), 6, 10) ELSE Mul(s * d, 1, SpeedScale))

\* THREE.MathUtils.lerp(a, b, t), t = num / den
Lerp(a, b, num, den) == a + Mul(b - a, num, den)

\* The height the boat starts at, and the one the bobbing is centred on.
HullHeight == 5

\* bobHeight: the sine (in thousandths) times 0.15 (revision 1) or 0.5 (revision 3).
BobHeight(r, b) == IF r = 1 THEN b * 15 ELSE b * 50

\* position.y after the bobbing line of update().
NextY(r, y, b) ==
    IF r = 1 THEN Lerp(y, HullHeight * HeightScale + BobHeight(r, b), 3, 100)
    ELSE Max(HullHeight * HeightScale + BobHeight(r, b), y)

\* usePowerUp: speed *= NITRO_MULTIPLIER
UsePowerUp(r, s) == Mul(s, NitroTenths(r), 10)

\* processKeys of revision 1's direct keyboard test: [speed, z] afterwards.
ProcessKeys(s, z, k) ==
    LET s1 == IF k.forward THEN Min(s + 25 * SpeedScale, 300 * SpeedScale) ELSE s
        z1 == IF k.forward THEN z + 3000 ELSE z
        s2 == IF k.backward THEN Max(s1 - 25 * SpeedScale, -150 * SpeedScale) ELSE s1
        z2 == IF k.backward THEN z1 - 1500 ELSE z1
    IN [speed |-> s2, z |-> z2]

KeyNames == {"forward", "backward", "ShiftLeft", "ShiftRight", "Space"}
ShiftKeys == {"ShiftLeft", "ShiftRight"}
NoKeys == [forward |-> FALSE, backward |-> FALSE]
\* Frame times in ms: 120 Hz, 60 Hz, a slow frame; and a frame after a stall.
SteadyFrameTimes == {8, 16, 100}
FrameTimes == SteadyFrameTimes \cup {1000}
BobPhases == {-1000, 0, 1000}
\* ms between update()'s read of the clock and animate()'s read in the next
\* frame: the rest of a 250 Hz or a 60 Hz frame.
FrameGaps == {4, 16}
FrameGap == 16

\* THREE.Clock.getDelta(): the time since the clock was read last, by
\* whichever caller; animate() reads it, then update() reads it again.
\* lag: ms from animate()'s read to update()'s read.
GetDelta(sinceLast, lag) == lag

\* The payload of update()'s socket.emit('playerUpdate', ...).
UpdatePayload(z, y, s, d) == [z |-> z, y |-> y, speed |-> s, isDrifting |-> d]
NothingSent == UpdatePayload(0, 0, 0, FALSE)

\* (mutant) the next frame is requested at the end of the body.
ScheduleNextAtEnd(threw) == ~threw

\* animate() calls requestAnimationFrame(animate) before anything else.
ScheduleNext(threw) == TRUE

PhysIdle ==
    /\ speed = 0
    /\ keys = NoKeys
    /\ shiftHeld = {}
    /\ isDrifting = FALSE
    /\ hasPowerUp = FALSE
    /\ dt = 16
    /\ bob = 0
    /\ elapsed = 0
    /\ frames = 0
    /\ inputs = 0
    /\ posZ = 0
    /\ posY = HullHeight * HeightScale
    /\ sentUpdate = NothingSent
    /\ sentCount = 0
    /\ scheduled = TRUE
    /\ faulted = FALSE
    /\ gap = FrameGap
    /\ wall = 0
    /\ timers = {}
    /\ teleports = 0
    /\ arrivals = 0

\* A started game of revision 1 or 3, the boat where init() puts it; the
\* hazards where the track points are.
LapStarted ==
    /\ rev \in {1, 3}
    /\ gameStarted = TRUE
    /\ checkpoints = InitTrack(rev, InitTrack(rev, <<>>))
    /\ currentCheckpoint = 0
    /\ lapCount = 0
    /\ boatPos = <<0, 0>>
    /\ stayed = {}
    /\ hazards = InitHazards(rev, InitHazards(rev, <<>>, <<0, 0>>), <<0, 0>>)

PhysInit ==
    /\ speed = 0
    /\ keys = NoKeys
    /\ shiftHeld = {}
    /\ isDrifting = FALSE
    /\ hasPowerUp = FALSE
    /\ dt \in FrameTimes
    /\ bob \in BobPhases
    /\ elapsed = 0
    /\ frames = 0
    /\ inputs = 0
    /\ posZ = 0
    /\ posY = HullHeight * HeightScale
    /\ sentUpdate = NothingSent
    /\ sentCount = 0
    /\ scheduled = TRUE
    /\ faulted = FALSE
    /\ gap = FrameGap
    /\ wall = 0
    /\ timers = {}
    /\ teleports = 0
    /\ arrivals = 0

\* The endless track of revision 1: its end, where the boat is put back to,
\* and the delay of the timeout that does it.
TrackEnd == 4900
TrackStart == -4900
FadeTime == 1000

\* if (playerBoat.position.z > 4900), z in thousandths; revision 1 only.
AtTrackEnd(r, z) == r = 1 /\ z > TrackEnd * 1000

\* The body of animate() throws: by the fault, or in update()'s checkpoint test.
FrameThrows(fault) ==
    \/ fault # "none"
    \/ fault # "animate" /\ CheckpointThrows(checkpoints, currentCheckpoint)

\* One run of animate(): the next frame is requested, then the body runs in
\* a try/catch.  fault = "animate": the body throws before it calls
\* update(); "render": renderer.render throws after update(); "none".
\* The boat is not steered: heading 0, x stays as it is.
Frame(fault) ==
    /\ UNCHANGED <<status, serverUp, players, up, down, started, otherPlayers,
                   sceneBoats, published, emitted, joinedConns>>
    /\ gameStarted
    /\ scheduled
    /\ scheduled' = ScheduleNext(FrameThrows(fault))
    /\ faulted' = (faulted \/ FrameThrows(fault))
    /\ frames' = frames + 1
    /\ elapsed' = Min(elapsed + GetDelta(gap, dt), MaxSimTime)
    /\ wall' = IF frames = 0 THEN 0 ELSE wall + gap + dt
    /\ \A t \in timers : t > wall'
    /\ last' = Ran("frame", 0, Absent, {}, fault # "animate", FrameThrows(fault))
    /\ IF fault = "animate"
       THEN UNCHANGED <<speed, posZ, posY, sentUpdate, sentCount,
                        currentCheckpoint, lapCount, boatPos, stayed>>
       ELSE /\ speed' = NextSpeed(rev, speed, keys, dt)
            /\ posZ' = NextZ(rev, posZ, speed', dt)
            /\ posY' = NextY(rev, posY, bob)
            /\ sentUpdate' = UpdatePayload(posZ', posY', speed', isDrifting)
            /\ sentCount' = sentCount + 1
            /\ LapPart(<<boatPos[1], Mul(posZ', 1, 1000)>>)
    /\ timers' = IF fault # "animate" /\ AtTrackEnd(rev, posZ')
                 THEN timers \cup {wall' + FadeTime} ELSE timers
    /\ arrivals' = IF fault # "animate" /\ AtTrackEnd(rev, posZ') /\ ~AtTrackEnd(rev, posZ)
                   THEN arrivals + 1 ELSE arrivals
    /\ UNCHANGED <<rev, gameStarted, checkpoints, hazards, keys, shiftHeld, isDrifting,
                   hasPowerUp, dt, bob, inputs, gap, teleports>>

\* A frame of a short run with input events in between.
PhysFrame(fault) == frames < MaxFrames /\ Frame(fault)

\* A frame of a run of MaxSimTime ms of simulated time in which nothing throws.
RunFrame == elapsed < MaxSimTime /\ Frame("none")

\* The timeout that is due first.
FirstDue(ts) == CHOOSE t \in ts : \A u \in ts : t <= u

\* The callback of update()'s inner timeout: playerBoat.position.z = -4900.
\* A timeout due before the next frame runs first, the earliest first.
TeleportTimer ==
    /\ UNCHANGED <<status, serverUp, players, up, down, started, otherPlayers,
                   sceneBoats, published, emitted, joinedConns>>
    /\ timers # {}
    /\ FirstDue(timers) <= wall + gap + dt
    /\ teleports < MaxTeleports
    /\ posZ' = TrackStart * 1000
    /\ boatPos' = <<boatPos[1], TrackStart>>
    /\ timers' = timers \ {FirstDue(timers)}
    /\ teleports' = teleports + 1
    /\ last' = Ran("teleport", 0, Absent, {}, TRUE, FALSE)
    /\ UNCHANGED <<rev, gameStarted, checkpoints, currentCheckpoint, lapCount, stayed, hazards>>
    /\ UNCHANGED <<speed, keys, shiftHeld, isDrifting, hasPowerUp, dt, bob, elapsed, frames,
                   inputs, posY, sentUpdate, sentCount, scheduled, faulted, gap, wall,
                   arrivals>>

\* A frame of a run to the end of the endless track.
EndFrame == teleports < MaxTeleports /\ Frame("none")

\* What an input handler leaves alone; used: it called usePowerUp().
InputFrame(op, used) ==
    /\ gameStarted
    /\ inputs < MaxInputs
    /\ inputs' = inputs + 1
    /\ last' = Ran(op, 0, Absent, {}, used, FALSE)
    /\ UNCHANGED <<status, serverUp, players, up, down, started, otherPlayers,
                   sceneBoats, published, emitted, joinedConns>>
    /\ UNCHANGED <<lapVars, dt, bob, elapsed, frames, posY, sentUpdate, sentCount,
                   scheduled, faulted, gap, wall, timers, teleports, arrivals>>

\* keydown: the keys record, isDrifting, revision 3's power-up use, and in
\* revision 1 the direct test's processKeys with the key added.
KeyDown(k) ==
    /\ InputFrame("keydown", k = "Space" /\ rev = 3 /\ hasPowerUp)
    /\ keys' = IF k \in {"forward", "backward"} THEN [keys EXCEPT ![k] = TRUE] ELSE keys
    /\ shiftHeld' = IF k \in ShiftKeys THEN shiftHeld \cup {k} ELSE shiftHeld
    /\ isDrifting' = IF k \in ShiftKeys THEN TRUE ELSE isDrifting
    /\ hasPowerUp' = IF k = "Space" /\ rev = 3 THEN FALSE ELSE hasPowerUp
    /\ LET s1 == IF k = "Space" /\ rev = 3 /\ hasPowerUp THEN UsePowerUp(rev, speed)
                 ELSE speed
           pk == IF rev = 1 THEN ProcessKeys(s1, posZ, keys') ELSE [speed |-> s1, z |-> posZ]
       IN /\ speed' = pk.speed
          /\ posZ' = pk.z

\* keyup of a key that is down: the keys record, isDrifting, and revision
\* 1's power-up use.
KeyUp(k) ==
    /\ InputFrame("keyup", k = "Space" /\ rev = 1 /\ hasPowerUp)
    /\ \/ k \in {"forward", "backward"} /\ keys[k]
       \/ k \in shiftHeld
       \/ k = "Space"
    /\ keys' = IF k \in {"forward", "backward"} THEN [keys EXCEPT ![k] = FALSE] ELSE keys
    /\ shiftHeld' = shiftHeld \ {k}
    /\ isDrifting' = IF k \in ShiftKeys THEN FALSE ELSE isDrifting
    /\ hasPowerUp' = IF k = "Space" /\ rev = 1 THEN FALSE ELSE hasPowerUp
    /\ speed' = IF k = "Space" /\ rev = 1 /\ hasPowerUp THEN UsePowerUp(rev, speed)
                ELSE speed
    /\ UNCHANGED posZ

\* Revision 1's animateKeyboardInput: processKeys while a key is pressed.
KeyboardTick ==
    /\ InputFrame("keyboardTick", FALSE)
    /\ rev = 1
    /\ keys.forward \/ keys.backward \/ shiftHeld # {}
    /\ speed' = ProcessKeys(speed, posZ, keys).speed
    /\ posZ' = ProcessKeys(speed, posZ, keys).z
    /\ UNCHANGED <<keys, shiftHeld, isDrifting, hasPowerUp>>

\* Revision 1's MANUAL UPDATE button.
ManualButton ==
    /\ InputFrame("manualUpdate", FALSE)
    /\ rev = 1
    /\ speed' = Min(speed + 50 * SpeedScale, 300 * SpeedScale)
    /\ posZ' = posZ + 3000
    /\ UNCHANGED <<keys, shiftHeld, isDrifting, hasPowerUp>>

\* One tick of revision 1's SMOOTH MOVE interval; its pull toward the
\* figure-8 path is sideways and is not followed here.
SmoothTick ==
    /\ InputFrame("smoothMove", FALSE)
    /\ rev = 1
    /\ speed' = Min(speed + 3 * SpeedScale, 200 * SpeedScale)
    /\ UNCHANGED <<posZ, keys, shiftHeld, isDrifting, hasPowerUp>>

\* The page of revision 1 or of revision 3 before the start button.
SessionIdle ==
    /\ rev \in {1, 3}
    /\ gameStarted = FALSE
    /\ checkpoints = <<>>
    /\ currentCheckpoint = 0
    /\ lapCount = 0
    /\ boatPos = <<0, 0>>
    /\ stayed = {}
    /\ hazards = <<>>

\* ------------------------------------------------------- specifications
Init == NetInit /\ LapIdle /\ PhysIdle

Next ==
    \/ \E c \in Conns : Connect(c)
    \/ \E c \in Conns : StartClick(c)
    \/ \E c \in Conns, v \in Vals : Publish(c, v)
    \/ \E c \in Conns, d \in AnyPayload, w \in BOOLEAN : ServerPlayerJoin(c, d, w)
    \/ \E c \in Conns, d \in AnyPayload, w \in BOOLEAN : ServerPlayerUpdate(c, d, w)
    \/ \E c \in Conns, d \in AnyPayload : ServerPowerUpUsed(c, d, TRUE)
    \/ \E c \in Conns : ServerDisconnect(c)
    \/ \E c \in Conns : ClientPlayersList(c)
    \/ \E c \in Conns : ClientPlayerMove(c)
    \/ \E c \in Conns : ClientPowerUpEffect(c)

Spec == Init /\ [][Next]_vars

NextHonest ==
    \/ \E c \in Conns : Connect(c)
    \/ \E c \in Conns : StartClick(c)
    \/ \E c \in Conns, v \in Vals : Publish(c, v)
    \/ \E c \in Conns, d \in AnyPayload : ServerPlayerJoin(c, d, FALSE)
    \/ \E c \in Conns, d \in AnyPayload : ServerPlayerUpdate(c, d, FALSE)
    \/ \E c \in Conns : ServerDisconnect(c)
    \/ \E c \in Conns : ClientPlayersList(c)
    \/ \E c \in Conns : ClientPlayerMove(c)

SpecHonest == Init /\ [][NextHonest]_vars

\* Game clients of either revision against the relay server.
InitSession == NetInit /\ SessionIdle /\ PhysIdle

SpecSession == InitSession /\ [][NextHonest]_vars

NextLap ==
    \/ StartGame
    \/ \E p \in BoatPlaces : UpdateStep(p)

InitLap == NetInit /\ LapInit /\ PhysIdle

SpecLap == InitLap /\ [][NextLap]_vars

\* The physics and the input handlers of a started game, a few frames long.
NextPhys ==
    \/ \E f \in {"none", "animate", "render"} : PhysFrame(f)
    \/ \E k \in KeyNames : KeyDown(k)
    \/ \E k \in KeyNames : KeyUp(k)
    \/ KeyboardTick
    \/ ManualButton
    \/ SmoothTick

InitPhys == NetInit /\ LapStarted /\ PhysInit

SpecPhys == InitPhys /\ [][NextPhys]_vars

\* Runs with a constant input: the keys held from the first frame on, a
\* started boat coasting from some speed when none is held.
StartSpeeds == {-30000, -100, 0, 100, 50000, 80000}

RunInit ==
    /\ keys \in [forward : BOOLEAN, backward : BOOLEAN]
    /\ speed \in (IF keys = NoKeys THEN StartSpeeds ELSE {0})
    /\ shiftHeld = {}
    /\ isDrifting = FALSE
    /\ hasPowerUp = FALSE
    /\ dt \in SteadyFrameTimes
    /\ bob \in BobPhases
    /\ elapsed = 0
    /\ frames = 0
    /\ inputs = 0
    /\ posZ = 0
    /\ posY = HullHeight * HeightScale
    /\ sentUpdate = NothingSent
    /\ sentCount = 0
    /\ scheduled = TRUE
    /\ faulted = FALSE
    /\ gap \in FrameGaps
    /\ wall = 0
    /\ timers = {}
    /\ teleports = 0
    /\ arrivals = 0

NextRun == RunFrame

InitRun == NetInit /\ LapStarted /\ RunInit

SpecRun == InitRun /\ [][NextRun]_vars

\* A boat at rest that holds a nitro power-up (hasPowerUp and powerUpType =
\* 'nitro'), the input of usePowerUp(); then keys and frames as in SpecPhys.
NitroInit ==
    /\ speed = 0
    /\ keys = NoKeys
    /\ shiftHeld = {}
    /\ isDrifting = FALSE
    /\ hasPowerUp = TRUE
    /\ dt = 16
    /\ bob = 0
    /\ elapsed = 0
    /\ frames = 0
    /\ inputs = 0
    /\ posZ = 0
    /\ posY = HullHeight * HeightScale
    /\ sentUpdate = NothingSent
    /\ sentCount = 0
    /\ scheduled = TRUE
    /\ faulted = FALSE
    /\ gap = FrameGap
    /\ wall = 0
    /\ timers = {}
    /\ teleports = 0
    /\ arrivals = 0

InitNitro == NetInit /\ LapStarted /\ NitroInit

SpecNitro == InitNitro /\ [][NextPhys]_vars

\* A boat that was steered to ApproachLen units short of a hazard and heads
\* straight for it (heading 0), on the track of revision 3.
ApproachLen == 20

HazardCourse ==
    /\ rev = 3
    /\ gameStarted = TRUE
    /\ checkpoints = InitTrack(rev, InitTrack(rev, <<>>))
    /\ currentCheckpoint = 0
    /\ lapCount = 0
    /\ stayed = {}
    /\ hazards \in {InitHazards(rev, InitHazards(rev, <<>>, o1), o2) :
                       o1 \in HazardShifts, o2 \in HazardShifts}
    /\ boatPos \in {<<hazards[i][1], hazards[i][2] - ApproachLen>> : i \in DOMAIN hazards}

HazardInit ==
    /\ keys \in {NoKeys, [forward |-> TRUE, backward |-> FALSE]}
    /\ speed = 300 * SpeedScale
    /\ shiftHeld = {}
    /\ isDrifting = FALSE
    /\ hasPowerUp = FALSE
    /\ dt \in SteadyFrameTimes
    /\ bob = 0
    /\ elapsed = 0
    /\ frames = 0
    /\ inputs = 0
    /\ posZ = boatPos[2] * 1000
    /\ posY = HullHeight * HeightScale
    /\ sentUpdate = NothingSent
    /\ sentCount = 0
    /\ scheduled = TRUE
    /\ faulted = FALSE
    /\ gap = FrameGap
    /\ wall = 0
    /\ timers = {}
    /\ teleports = 0
    /\ arrivals = 0

InitHazard == NetInit /\ HazardCourse /\ HazardInit

SpecHazard == InitHazard /\ [][NextRun]_vars

\* Revision 1's boat a few units short of the end of the endless track, with
\* forward held.
EndCourse ==
    /\ rev = 1
    /\ gameStarted = TRUE
    /\ checkpoints = <<>>
    /\ currentCheckpoint = 0
    /\ lapCount = 0
    /\ stayed = {}
    /\ hazards = <<>>
    /\ boatPos \in {<<0, TrackEnd - 5>>, <<0, TrackEnd - 1>>}

EndInit ==
    /\ keys = [forward |-> TRUE, backward |-> FALSE]
    /\ speed \in {100 * SpeedScale, 300 * SpeedScale}
    /\ shiftHeld = {}
    /\ isDrifting = FALSE
    /\ hasPowerUp = FALSE
    /\ dt \in {8, 16}
    /\ bob = 0
    /\ elapsed = 0
    /\ frames = 0
    /\ inputs = 0
    /\ posZ = boatPos[2] * 1000
    /\ posY = HullHeight * HeightScale
    /\ sentUpdate = NothingSent
    /\ sentCount = 0
    /\ scheduled = TRUE
    /\ faulted = FALSE
    /\ gap \in FrameGaps
    /\ wall = 0
    /\ timers = {}
    /\ teleports = 0
    /\ arrivals = 0

NextEnd ==
    \/ EndFrame
    \/ TeleportTimer

InitEnd == NetInit /\ EndCourse /\ EndInit

SpecEnd == InitEnd /\ [][NextEnd]_vars

\* The checkpoint test on any short list of checkpoints and on the track.
ListPlaces == {<<0, 0>>, <<50, 0>>, <<300, 0>>}

ListInit ==
    /\ rev = 3
    /\ gameStarted = TRUE
    /\ checkpoints \in {InitTrack(3, InitTrack(3, <<>>))} \cup
           UNION {[1..n -> ListPlaces] : n \in 1..MaxListLen}
    /\ currentCheckpoint = 0
    /\ lapCount = 0
    /\ boatPos = <<0, 0>>
    /\ stayed = {}
    /\ hazards = <<>>

NextList == \E p \in BoatPlaces \cup ListPlaces : UpdateStep(p)

InitList == NetInit /\ ListInit /\ PhysIdle

SpecList == InitList /\ [][NextList]_vars

\* A full room: MaxPlayers clients have joined and every message has been
\* delivered; one more page is about to load.  The last of the players and
\* the newcomer act, the first player's client is followed as well.
MaxPlayers == 8
Crowd == 1..(MaxPlayers + 1)
Seated == 1..MaxPlayers
Newcomers == {MaxPlayers, MaxPlayers + 1}
JoinPayload == Payload(Absent, StartPose, StartPose)
JoinedBoat == [pos |-> FromArray(StartPose), rot |-> FromArray(StartPose)]

CrowdInit ==
    /\ status = [c \in Crowd |-> IF c \in Seated THEN "open" ELSE "idle"]
    /\ serverUp = TRUE
    /\ players = [i \in Seated |-> JoinRecord(i, JoinPayload)]
    /\ up = [c \in Crowd |-> <<>>]
    /\ down = [c \in Crowd |-> <<>>]
    /\ started = [c \in Crowd |-> c \in Seated]
    /\ otherPlayers = [c \in Crowd |->
                          IF c \in Seated THEN [i \in Seated \ {c} |-> JoinedBoat] ELSE NoBoats]
    /\ sceneBoats = [c \in Crowd |->
                        [i \in Crowd |-> IF c \in Seated /\ i \in Seated \ {c} THEN 1 ELSE 0]]
    /\ published = [c \in Crowd |-> IF c \in Seated
                                      THEN [pos |-> StartPose, rot |-> StartPose]
                                      ELSE [pos |-> Absent, rot |-> Absent]]
    /\ emitted = 0
    /\ joinedConns = Seated
    /\ last = Ran("none", 0, Absent, {}, FALSE, FALSE)

NextCrowd ==
    \/ \E c \in Newcomers : Connect(c)
    \/ \E c \in Newcomers : StartClick(c)
    \/ \E c \in Newcomers : ServerPlayerJoin(c, JoinPayload, FALSE)
    \/ \E c \in Newcomers : ServerDisconnect(c)
    \/ \E c \in Newcomers \cup {1} : ClientPlayersList(c)

InitCrowd == CrowdInit /\ LapIdle /\ PhysIdle

SpecCrowd == InitCrowd /\ [][NextCrowd]_vars

\* ================================================================ claims
LastOf(q) == q[Len(q)]

\* C1: after a client has processed a playersList roster that does not contain
\* id X, its otherPlayers table has no entry for X.
C1_RosterPrunes ==
    last.op = "playersList" =>
        \A x \in Conns : x \notin last.ids => x \notin DOMAIN otherPlayers[last.c]

\* C2: whatever a connection c sends in playerJoin or playerUpdate, the record
\* the server stores for c and the playerMove it relays for c carry c's own id.
C2_OwnIdOnly ==
    /\ \A i \in DOMAIN players : players[i].id = players[i].key
    /\ (last.op = "playerUpdate" /\ last.hit) => last.id = last.c

\* C3: a client holds at most one boat per player id and none for its own id;
\* a roster entry with an id the table lacks adds exactly one boat for it, an
\* entry with an id the table has adds none, and playerMove never adds one.
C3_State ==
    \A c \in Conns :
        /\ c \notin DOMAIN otherPlayers[c]
        /\ \A i \in Conns :
            /\ sceneBoats[c][i] <= 1
            /\ sceneBoats[c][i] = 1 <=> i \in DOMAIN otherPlayers[c]

C3_Step ==
    \A c \in Conns :
        /\ (last'.op = "playersList" /\ last'.c = c /\ ~last'.threw) =>
               \A i \in Conns :
                   sceneBoats'[c][i] - sceneBoats[c][i] =
                       IF i \in last'.ids /\ i # c /\ i \notin DOMAIN otherPlayers[c]
                       THEN 1 ELSE 0
        /\ (last'.op = "playerMove" /\ last'.c = c) => sceneBoats'[c] = sceneBoats[c]

C4_Step ==
    \A c \in Conns :
        (last'.op = "playerMove" /\ last'.c = c) =>
            /\ DOMAIN otherPlayers'[c] = DOMAIN otherPlayers[c]
            /\ sceneBoats' = sceneBoats
            /\ \A b \in Conns \ {c} : otherPlayers'[b] = otherPlayers[b]
            /\ Head(down[c]).id \notin DOMAIN otherPlayers[c] =>
                   /\ otherPlayers' = otherPlayers
                   /\ ~last'.threw

C4_UnknownMoveIsNoOp == [][C4_Step]_vars

\* A playerMove for an id the client has no boat for has been handled.
C4_Witness == last.op = "playerMove" /\ ~last.hit /\ otherPlayers[last.c] = NoBoats

\* C5: an accepted playerUpdate of c merges the payload into c's record, leaves
\* every other record alone, and puts one playerMove with that payload on the
\* way to every other connection and none to c.
C5_Step ==
    \A c \in Conns :
        (last'.op = "playerUpdate" /\ last'.c = c /\ last'.hit) =>
            /\ Has(players, c)
            /\ Len(players') = Len(players)
            /\ \A i \in DOMAIN players :
                   /\ players'[i].key = players[i].key
                   /\ players[i].key # c => players'[i] = players[i]
            /\ down'[c] = down[c]
            /\ \A b \in Conns \ {c} :
                   IF status[b] = "open"
                   THEN /\ Len(down'[b]) = Len(down[b]) + 1
                        /\ SubSeq(down'[b], 1, Len(down[b])) = down[b]
                        /\ LET m == LastOf(down'[b])
                               old == Get(players, c)
                               new == Get(players', c)
                           IN /\ m.type = "playerMove"
                              /\ new.pos = IF m.pos # Absent THEN m.pos ELSE old.pos
                              /\ new.rot = IF m.rot # Absent THEN m.rot ELSE old.rot
                   ELSE down'[b] = down[b]

C5_UpdateRelayedToOthers == [][C5_Step]_vars

\* An update of a joined connection was relayed while another connection was open.
C5_Witness ==
    /\ last.op = "playerUpdate"
    /\ last.hit
    /\ \E b \in Open \ {last.c} : down[b] # <<>> /\ LastOf(down[b]).type = "playerMove"

\* C6: the keys of gameState.players are the connections whose playerJoin was
\* handled and that have not disconnected since; a disconnect removes the
\* record and sends the remaining roster to every remaining connection.
C6_State ==
    /\ Keys(players) = joinedConns
    /\ Len(players) = Cardinality(joinedConns)

C6_Step ==
    \A c \in Conns :
        (last'.op = "disconnect" /\ last'.c = c) =>
            /\ players' = SelectSeq(players, LAMBDA r : r.key # c)
            /\ c \notin Keys(players')
            /\ \A b \in Conns \ {c} :
                   IF status'[b] = "open"
                   THEN down'[b] = Append(down[b], RosterMsg(players'))
                   ELSE down'[b] = down[b]

C6_KeysAreJoined == []C6_State /\ [][C6_Step]_vars

\* A joined connection has disconnected while another one was connected.
C6_Witness ==
    /\ last.op = "disconnect"
    /\ last.hit
    /\ \E b \in Open : down[b] # <<>> /\ LastOf(down[b]) = RosterMsg(players)

\* C7: a playerJoin of c leaves exactly one record keyed by c (a repeated join
\* replaces it), touches no other record, and sends the map as it is after the
\* insert to every connected socket, c included.
C7_Step ==
    \A c \in Conns :
        (last'.op = "playerJoin" /\ last'.c = c) =>
            /\ Keys(players') = Keys(players) \cup {c}
            /\ Len(players') = Cardinality(Keys(players'))
            /\ \A i \in DOMAIN players : players[i].key # c => players'[i] = players[i]
            /\ status[c] = "open"
            /\ \A b \in Conns :
                   IF status[b] = "open"
                   THEN down'[b] = Append(down[b], RosterMsg(players'))
                   ELSE down'[b] = down[b]

C7_JoinBroadcastsRoster == [][C7_Step]_vars

\* A connection joined a second time while two connections were open.
C7_Witness ==
    /\ last.op = "playerJoin"
    /\ last.hit
    /\ Cardinality(Open) >= 2
    /\ \A b \in Open : down[b] # <<>> /\ LastOf(down[b]) = RosterMsg(players)

\* C8: once no message is in flight, every joined client has, for every other
\* joined player, a boat at that player's last published position and rotation.
Quiescent == \A c \in Open : up[c] = <<>> /\ down[c] = <<>>

C8_Consistent ==
    Quiescent =>
        \A c \in Keys(players), d \in Keys(players) :
            c # d =>
                /\ d \in DOMAIN otherPlayers[c]
                /\ otherPlayers[c][d] = published[d]

\* Two players have joined, one has moved since, and everything was delivered.
C8_Witness ==
    /\ Quiescent
    /\ Cardinality(Keys(players)) >= 2
    /\ last.op = "playerMove"
    /\ last.hit
    /\ \E d \in Keys(players) : published[d].pos # StartPose

\* C9: no event of any client, whatever its payload, makes a handler of the
\* relay server throw.
C9_ServerNeverThrows == serverUp

\* C10 as stated, for a checkpoint j at another place than the expected one:
\* a frame that ends with the boat inside the radius of checkpoint j, j not the
\* expected index, leaves currentCheckpoint and lapCount unchanged.
C10_SkipAheadIgnored ==
    [][gameStarted =>
          \A j \in DOMAIN checkpoints :
              (/\ InRadius(boatPos', checkpoints[j])
               /\ j - 1 # currentCheckpoint
               /\ checkpoints[j] # checkpoints[currentCheckpoint + 1])
              => UNCHANGED <<currentCheckpoint, lapCount>>]_vars

\* C10 (amended): a frame that ends with the boat inside the radius of a
\* checkpoint j that is not the expected one, and outside the radius of the
\* expected one, leaves currentCheckpoint and lapCount unchanged.
C10_InOrder ==
    [][gameStarted =>
          \A j \in DOMAIN checkpoints :
              (/\ InRadius(boatPos', checkpoints[j])
               /\ j - 1 # currentCheckpoint
               /\ ~InRadius(boatPos', checkpoints[currentCheckpoint + 1]))
              => UNCHANGED <<currentCheckpoint, lapCount>>]_vars

\* Checkpoint 0 was passed and the boat then went to checkpoint 2, skipping 1.
C10_Witness ==
    /\ gameStarted
    /\ checkpoints # <<>>
    /\ boatPos = TrackPath[3]
    /\ currentCheckpoint = 1
    /\ lapCount = 0

C12_LapAtCheckpointZero ==
    [][lapCount' > lapCount => InRadius(boatPos', checkpoints[1])]_vars

Abs(v) == IF v < 0 THEN -v ELSE v
ForwardOnly == [forward |-> TRUE, backward |-> FALSE]
BackwardOnly == [forward |-> FALSE, backward |-> TRUE]
InRange(r, v) == -ReverseLimit(r) <= v /\ v <= MaxSpeed(r)

\* C13: whatever the interleaving of frames, key events, the direct-key and
\* the button handlers, speed stays in [-MAX_SPEED * 0.4, MAX_SPEED], and so
\* does the speed of every playerUpdate.
C13_SpeedInRange ==
    /\ ReversePct < 100
    /\ InRange(rev, speed)
    /\ sentCount > 0 => InRange(rev, sentUpdate.speed)

\* A frame after an input event has run into the upper limit and published it.
C13_Witness ==
    /\ last.op = "frame"
    /\ last.hit
    /\ inputs > 0
    /\ speed = MaxSpeed(rev)
    /\ sentUpdate.speed = speed

\* C14: with forward held from speed 0, speed never exceeds MAX_SPEED and has
\* reached MAX_SPEED after 2 seconds of simulated time.
TwoSeconds == 2 * 1000

C14_ForwardReachesCap ==
    keys = ForwardOnly =>
        /\ speed <= MaxSpeed(rev)
        /\ elapsed >= TwoSeconds => speed = MaxSpeed(rev)

\* C15: with backward held from speed 0, the magnitude of a negative speed
\* never exceeds MAX_SPEED * 0.4, and the value the speed settles at (one
\* more frame leaves it unchanged) is -MAX_SPEED * 0.4.
C15_BackwardReachesLimit ==
    keys = BackwardOnly =>
        /\ speed < 0 => Abs(speed) <= ReverseLimit(rev)
        /\ (frames > 0 /\ NextSpeed(rev, speed, keys, dt) = speed)
               => speed = -ReverseLimit(rev)

\* C16: with no key held a frame never makes |speed| larger, makes it smaller
\* unless it is 0, and never changes the sign of speed.
C16_Step ==
    (last'.op = "frame" /\ last'.hit /\ keys = NoKeys /\ shiftHeld = {}) =>
        /\ Abs(speed') <= Abs(speed)
        /\ speed # 0 => Abs(speed') < Abs(speed)
        /\ speed > 0 => speed' >= 0
        /\ speed < 0 => speed' <= 0
        /\ speed = 0 => speed' = 0

C16_CoastingDecays == [][C16_Step]_vars

\* A boat moving backward has coasted for some frames and is still moving.
C16_Witness ==
    /\ keys = NoKeys
    /\ last.op = "frame"
    /\ frames >= 3
    /\ speed < 0

\* C17: after every frame position.y is at least WATER_LEVEL + 5.
C17_AboveWater == posY >= HullHeight * HeightScale

\* C18: a frame whose body throws leaves the next frame requested, the loop
\* is never without a pending frame, and a frame that does not throw runs
\* the physics step, also after a frame that threw.
C18_Step ==
    last'.op = "frame" =>
        /\ scheduled'
        /\ ~last'.threw => (last'.hit /\ sentCount' = sentCount + 1)

C18_LoopSurvives == [](gameStarted => scheduled) /\ [][C18_Step]_vars

\* A frame has thrown and a later frame has run the physics step.
C18_Witness ==
    /\ faulted
    /\ last.op = "frame"
    /\ last.hit
    /\ ~last.threw
    /\ sentCount > 0

\* C19: every run of the physics step emits one playerUpdate, with the
\* position, the speed the boat has after the step, and isDrifting equal to
\* whether a Shift key is down.
C19_Step ==
    (last'.op = "frame" /\ last'.hit) =>
        /\ sentCount' = sentCount + 1
        /\ sentUpdate' = UpdatePayload(posZ', posY', speed', shiftHeld # {})

C19_PublishesState == [][C19_Step]_vars

\* C20: with forward and backward both held, the frame's speed differs from
\* the one the same frame gives with forward alone.
C20_Step ==
    (last'.op = "frame" /\ last'.hit /\ keys.forward /\ keys.backward) =>
        speed' # NextSpeed(rev, speed, ForwardOnly, dt)

C20_BothTermsApply == [][C20_Step]_vars

\* C21: with an empty checkpoint list every update step completes without
\* throwing and leaves currentCheckpoint and lapCount as they were.
C21_Step ==
    (checkpoints = <<>> /\ frames' # frames) =>
        /\ ~last'.threw
        /\ currentCheckpoint' = currentCheckpoint
        /\ lapCount' = lapCount

C21_EmptyListIsNoOp == [][C21_Step]_vars

\* A boat on the track without checkpoints has moved through two frames.
C21_Witness ==
    /\ checkpoints = <<>>
    /\ frames >= 2
    /\ last.op = "frame"
    /\ last.hit
    /\ posZ # 0

\* C22: the server's player map, and every playersList roster sent from it,
\* holds at most MaxPlayers records.
C22_AtMostEight ==
    /\ Len(players) <= MaxPlayers
    /\ \A c \in DOMAIN down : \A i \in 1..Len(down[c]) :
           down[c][i].type = "playersList" => Len(down[c][i].players) <= MaxPlayers

\* C23: a physics step that runs right after a nitro power-up was activated
\* (inside any duration window) carries a forward boost: it leaves the boat
\* faster than the plain step from the same speed does.
C23_Step ==
    (last.op \in {"keydown", "keyup"} /\ last.hit /\ frames' # frames /\ last'.hit) =>
        speed' > NextSpeed(rev, speed, keys, dt)

CollisionThreshold == 5

Penetrated(p, hz) ==
    {i \in DOMAIN hz :
        (p[1] - hz[i][1]) * (p[1] - hz[i][1]) + (p[2] - hz[i][2]) * (p[2] - hz[i][2])
            < CollisionThreshold * CollisionThreshold}

C24_Step ==
    (frames' # frames /\ last'.hit
        /\ Penetrated(<<boatPos[1], Mul(posZ, 1, 1000)>>, hazards) # {}) =>
        posZ' # NextZ(rev, posZ, NextSpeed(rev, speed, keys, dt), dt)

C24_HazardsRepel == [][C24_Step]_vars

\* C25: a game client emits playerJoin before its first playerUpdate, so
\* every playerUpdate of a game client finds the sender's record at the
\* server and is relayed, never dropped.
C25_JoinBeforeUpdates == last.op = "playerUpdate" => last.hit

\* C26: the deltas update() integrates with add up to the clock time that
\* has passed between the first frame and the latest one.
C26_DeltasAddUp ==
    (frames >= 1 /\ elapsed < MaxSimTime) => elapsed - dt = wall

\* C27: a playerUpdate from a connection without a record in the player map
\* changes nothing at the server and sends no message to anyone.
C27_Step ==
    (last'.op = "playerUpdate" /\ ~last'.hit) =>
        /\ players' = players
        /\ down' = down
        /\ joinedConns' = joinedConns
        /\ serverUp' = serverUp
        /\ status' = status

C27_UnknownSenderDropped == [][C27_Step]_vars

\* An update of a connection without a record was handled while another
\* connection was open and the map held a player.
C27_Witness ==
    /\ last.op = "playerUpdate"
    /\ ~last.hit
    /\ players # <<>>
    /\ Others(last.c) # {}

\* C28: with a non-empty checkpoint list of length N, currentCheckpoint is
\* in 0..N-1; lapCount never decreases; and one step leaves currentCheckpoint
\* where it is or moves it one position on (mod N).
C28_State ==
    checkpoints # <<>> =>
        (0 <= currentCheckpoint /\ currentCheckpoint < Len(checkpoints))

C28_Step ==
    /\ lapCount' >= lapCount
    /\ checkpoints' # <<>> =>
           currentCheckpoint' \in
               {currentCheckpoint, (currentCheckpoint + 1) % Len(checkpoints')}

C28_IndexInRange == [](C28_State) /\ [][C28_Step]_vars

\* The index has gone round the list: a lap is counted and it is back at 0.
C28_Witness ==
    /\ checkpoints # <<>>
    /\ gameStarted
    /\ lapCount >= 1
    /\ currentCheckpoint = 0

\* C29: however often init() has run, the checkpoint list of revision 3 holds
\* one checkpoint per track point.
C29_OnePerTrackPoint == rev = 3 => Len(checkpoints) = Len(TrackPath)

\* C30: the boat is put back to the start of the endless track once for each
\* time it has come to the track's end, never more often.
C30_OneTeleportPerArrival == teleports <= arrivals

====
